---- MODULE Spec2Model ----
(***************************************************************************)
(* Token lifecycle and authenticated-request retry protocol of             *)
(* expo-keycloak-client: AuthTokenService (token store operations and      *)
(* refresh), AuthService (end session), AuthRestService (axios             *)
(* interceptors) and AuthProvider (startup, logout).                       *)
(*                                                                         *)
(* Every asynchronous operation is a task.  A task advances one step per   *)
(* completed await: the step applies the effect of the awaited I/O and     *)
(* runs the synchronous continuation up to the next await.  A return from  *)
(* an async method to its awaiting caller is a step of its own.            *)
(***************************************************************************)
EXTENDS Integers, Sequences, FiniteSets, TLC

\* Token strings are 1..MaxTok; Null (0) is an absent key / null / undefined.
MaxTok == 2
\* Cap on the transmissions of one Gateway call (the code sends at most two).
MaxSends == 3

Null == 0
Tokens == 1..MaxTok
Tasks == {"t1", "t2"}

\* TOKEN_STORAGE_KEY
ACCESS_TOKEN == "accessToken"
REFRESH_TOKEN == "refreshToken"
ID_TOKEN == "idToken"
Keys == {ACCESS_TOKEN, REFRESH_TOKEN, ID_TOKEN}

\* AccessTokenRequestResponse, reduced to the three fields that are stored.
Responses ==
  [access_token : Tokens, refresh_token : Tokens, id_token : Tokens]
NoResp == [access_token |-> Null, refresh_token |-> Null, id_token |-> Null]

\* Result of retrieveTokens: ok = FALSE is the null result of the catch branch.
NoTokens ==
  [ok |-> TRUE, accessToken |-> Null, refreshToken |-> Null, idToken |-> Null]
NullTokens ==
  [ok |-> FALSE, accessToken |-> Null, refreshToken |-> Null, idToken |-> Null]

\* HTTP statuses the servers answer with (a representative of each class).
OkStatuses == {200}
FailStatuses == {400, 401, 500}
Unauthorized == 401

\* DiscoveryDocument as handed to the effect: tokenEndpoint may be undefined,
\* discoveryDocument.error may be set.
Discoveries == [tokenEndpoint : {"undefined", "url"}, error : BOOLEAN]
NoDoc == [tokenEndpoint |-> "undefined", error |-> FALSE]

VARIABLES
  store,            \* SecureStore: key -> token string or Null
  tokenEndpoint,    \* AuthTokenService._tokenEndpoint: "null", "" or "url"
  clientId,         \* AuthTokenService._clientId: "null" or "cid"
  svcDiscovery,     \* AuthService._discovery: "null" or "set"
  svcConfig,        \* AuthService._config: "null" or "set"
  loading,          \* AuthProvider state
  isAuthenticated,  \* AuthProvider state
  error,            \* AuthProvider state: "null" or "discovery"
  task              \* the running asynchronous operations

vars ==
  <<store, tokenEndpoint, clientId, svcDiscovery, svcConfig,
    loading, isAuthenticated, error, task>>

shared ==
  <<tokenEndpoint, clientId, svcDiscovery, svcConfig,
    loading, isAuthenticated, error>>

\* A task that runs nothing.  Its fields:
\*   op        entry point being run        pc      position in the code
\*   stack     return positions of the pending async calls
\*   tokens    value built / returned by retrieveTokens
\*   resp      token response being stored  rret    value refreshTokens returned
\*   status    status of the last response to the Gateway request (0: none)
\*   idp       status of the last response of the identity provider (0: none)
\*   ret, err, errStatus   outcome of the entry point
\*   retry     originalRequest._retry
\*   header    config.headers.Authorization: t stands for `Bearer t`, Null for none
\*   preset    the Authorization header the caller passed in its config
\*   first     the Authorization header of the first transmission
\*   atSend    the stored access token when the last transmission was sent
\*   sends     transmissions of the Gateway request
\*   refreshes refreshTokens calls made     posts   requests sent to the IdP
\*   envErr    the error axios raised for the last transmission
\*   doc       discovery document of the effect   exp   decoded exp class
\*   wrote     the operation has set or deleted a key of the store
\*   prompt    what promptAsync resolved to  req   the auth request of the hook
\*   xret      what requestAccessToken returned: "null" or a parsed "body"
\*   got       what getAccessToken returned to the application
\*   readErr   a getItemAsync of the last retrieveTokens rejected
IdleTask ==
  [op |-> "idle", pc |-> "idle", stack |-> <<>>, tokens |-> NoTokens,
   resp |-> NoResp, rret |-> NoResp, status |-> 0, idp |-> 0,
   ret |-> "none", err |-> "none", errStatus |-> 0,
   retry |-> FALSE, header |-> Null, preset |-> Null, first |-> Null,
   atSend |-> Null,
   sends |-> 0, refreshes |-> 0, posts |-> 0,
   envErr |-> "none", doc |-> NoDoc, exp |-> "none", wrote |-> FALSE,
   prompt |-> "none", req |-> "none", xret |-> "none", got |-> Null,
   readErr |-> FALSE]

Init ==
  /\ store \in [Keys -> Tokens \cup {Null}]
  /\ tokenEndpoint = "null"
  /\ clientId = "null"
  /\ svcDiscovery = "null"
  /\ svcConfig = "null"
  /\ loading = TRUE
  /\ isAuthenticated = FALSE
  /\ error = "null"
  /\ task = [t \in Tasks |-> IdleTask]

\* utils.isDef: neither null nor undefined.
IsDef(v) == v # Null

\* JavaScript truthiness of a string-or-null value held as a model string.
Truthy(s) == s \notin {"null", "undefined", ""}

Free(t) == task[t].pc \in {"idle", "done"}

Set(t, r) == task' = [task EXCEPT ![t] = r]

\* An async method called with `await`: continue at `entry`, come back to `back`.
Call(r, entry, back) == [r EXCEPT !.pc = entry, !.stack = <<back>> \o r.stack]

\* The awaited method settles normally: resume the caller.
Return(r) == [r EXCEPT !.pc = Head(r.stack), !.stack = Tail(r.stack)]

\* The entry point settles: "ok" / "throw" for a promise that resolves /
\* rejects, "success" / "failure" for the result objects of logout.
Finish(r, ret) == [r EXCEPT !.pc = "done", !.stack = <<>>, !.ret = ret]

\* Faulty variant: the Gateway's catch swallows the refresh error and replays anyway.
CatchOf_GatewaySwallows(op) ==
  CASE op = "useEffect" -> "ia_catch"
    [] op = "logout" -> "lo_catch"
    [] op = "login" -> "li_catch"
    [] op = "gateway" -> "gw_refreshed"
    [] OTHER -> "done"

\* Faulty variant: handleInitAuth awaits refreshTokens outside its try block.
CatchOf_InitAuthUnguarded(op) ==
  CASE op = "logout" -> "lo_catch"
    [] op = "login" -> "li_catch"
    [] OTHER -> "done"

\* Where a rejection of an awaited call is caught, by entry point: the
\* try/catch of handleInitAuth, of logout and of login.  Every other entry
\* point (refreshAccessToken, the Gateway verbs, storeTokens) lets it escape.
CatchOf(op) ==
  CASE op = "useEffect" -> "ia_catch"
    [] op = "logout" -> "lo_catch"
    [] op = "login" -> "li_catch"
    [] OTHER -> "done"

\* A rejection unwinds every pending call up to the entry point's handler.
Throw(r, e, s) ==
  [r EXCEPT !.pc = CatchOf(r.op), !.stack = <<>>, !.err = e, !.errStatus = s,
            !.ret = IF CatchOf(r.op) = "done" THEN "throw" ELSE r.ret]

----------------------------------------------------------------------------
(* AuthTokenService.retrieveTokens *)

RetrieveTokensCall(r, back) ==
  Call([r EXCEPT !.tokens = NoTokens, !.readErr = FALSE], "rt_accessToken", back)

\* Faulty variant: the id token is read from the refresh-token key.
RtKey_IdFromRefresh(pc) ==
  CASE pc = "rt_accessToken" -> ACCESS_TOKEN
    [] OTHER -> REFRESH_TOKEN

RtKey(pc) ==
  CASE pc = "rt_accessToken" -> ACCESS_TOKEN
    [] pc = "rt_refreshToken" -> REFRESH_TOKEN
    [] OTHER -> ID_TOKEN

\* The three getItemAsync calls, in order; the last one returns the record.
RetrieveRead(t) ==
  LET r == task[t]
      k == RtKey(r.pc)
      got == [r EXCEPT !.tokens = [r.tokens EXCEPT ![k] = store[k]]]
  IN /\ r.pc \in {"rt_accessToken", "rt_refreshToken", "rt_idToken"}
     /\ Set(t, CASE r.pc = "rt_accessToken" -> [got EXCEPT !.pc = "rt_refreshToken"]
                 [] r.pc = "rt_refreshToken" -> [got EXCEPT !.pc = "rt_idToken"]
                 [] OTHER -> Return(got))
     /\ UNCHANGED <<store, shared>>

\* Faulty variant: the catch returns the fields read so far.
OnReadError_Partial(tokens) == tokens

\* The catch of retrieveTokens: return null, whatever was read before.
OnReadError(tokens) == NullTokens

\* A getItemAsync rejects: the catch branch returns null for the whole result.
RetrieveFail(t) ==
  LET r == task[t]
  IN /\ r.pc \in {"rt_accessToken", "rt_refreshToken", "rt_idToken"}
     /\ Set(t, Return([r EXCEPT !.tokens = OnReadError(r.tokens),
                                !.readErr = TRUE]))
     /\ UNCHANGED <<store, shared>>

----------------------------------------------------------------------------
(* AuthTokenService.storeTokens *)

StoreTokensCall(r, resp, back) ==
  Call([r EXCEPT !.resp = resp], "st_accessToken", back)

\* Faulty variant: the refresh token is written under the access-token key too.
StValue_RefreshForAccess(pc, resp) ==
  CASE pc = "st_accessToken" -> resp.refresh_token
    [] pc = "st_refreshToken" -> resp.refresh_token
    [] OTHER -> resp.id_token

\* The value each setItemAsync of storeTokens writes, by position.
StValue(pc, resp) ==
  CASE pc = "st_accessToken" -> resp.access_token
    [] pc = "st_refreshToken" -> resp.refresh_token
    [] OTHER -> resp.id_token

StKey(pc) ==
  CASE pc = "st_accessToken" -> ACCESS_TOKEN
    [] pc = "st_refreshToken" -> REFRESH_TOKEN
    [] OTHER -> ID_TOKEN

\* The three setItemAsync calls, in order.  SecureStore accepts strings only.
StoreWrite(t) ==
  LET r == task[t]
      v == StValue(r.pc, r.resp)
      w == [r EXCEPT !.wrote = TRUE]
  IN /\ r.pc \in {"st_accessToken", "st_refreshToken", "st_idToken"}
     /\ v # Null
     /\ store' = [store EXCEPT ![StKey(r.pc)] = v]
     /\ Set(t, CASE r.pc = "st_accessToken" -> [w EXCEPT !.pc = "st_refreshToken"]
                 [] r.pc = "st_refreshToken" -> [w EXCEPT !.pc = "st_idToken"]
                 [] OTHER -> Return(w))
     /\ UNCHANGED shared

\* A setItemAsync rejects: storeTokens propagates it.
StoreFail(t) ==
  LET r == task[t]
  IN /\ r.pc \in {"st_accessToken", "st_refreshToken", "st_idToken"}
     /\ Set(t, Throw(r, "StorageError", 0))
     /\ UNCHANGED <<store, shared>>

----------------------------------------------------------------------------
(* AuthTokenService.removeTokens *)

RemoveTokensCall(r, back) == Call(r, "rm_accessToken", back)

RmKey(pc) ==
  CASE pc = "rm_accessToken" -> ACCESS_TOKEN
    [] pc = "rm_refreshToken" -> REFRESH_TOKEN
    [] OTHER -> ID_TOKEN

\* The three deleteItemAsync calls, in order.
RemoveDelete(t) ==
  LET r == task[t]
      w == [r EXCEPT !.wrote = TRUE]
  IN /\ r.pc \in {"rm_accessToken", "rm_refreshToken", "rm_idToken"}
     /\ store' = [store EXCEPT ![RmKey(r.pc)] = Null]
     /\ Set(t, CASE r.pc = "rm_accessToken" -> [w EXCEPT !.pc = "rm_refreshToken"]
                 [] r.pc = "rm_refreshToken" -> [w EXCEPT !.pc = "rm_idToken"]
                 [] OTHER -> Return(w))
     /\ UNCHANGED shared

\* A deleteItemAsync rejects: removeTokens propagates it.
RemoveFail(t) ==
  LET r == task[t]
  IN /\ r.pc \in {"rm_accessToken", "rm_refreshToken", "rm_idToken"}
     /\ Set(t, Throw(r, "StorageError", 0))
     /\ UNCHANGED <<store, shared>>

----------------------------------------------------------------------------
(* AuthTokenService.refreshTokens *)

RefreshTokensCall(r, back) ==
  RetrieveTokensCall(
    Call([r EXCEPT !.refreshes = @ + 1, !.rret = NoResp], "rf", back),
    "rf_check")

\* Faulty variant: the token endpoint is not checked.
RefreshPrecondition_EndpointUnchecked(tokens, cid, endpoint) ==
  CASE ~tokens.ok -> "NoTokens"
    [] tokens.refreshToken = Null -> "NoRefreshToken"
    [] ~Truthy(cid) -> "NoClientId"
    [] OTHER -> "none"

\* Faulty variant: the configuration is checked before the tokens.
RefreshPrecondition_ConfigFirst(tokens, cid, endpoint) ==
  CASE ~Truthy(cid) -> "NoClientId"
    [] ~Truthy(endpoint) -> "NoTokenEndpoint"
    [] ~tokens.ok -> "NoTokens"
    [] tokens.refreshToken = Null -> "NoRefreshToken"
    [] OTHER -> "none"

\* The checks between retrieveTokens and the fetch, in the order of the code:
\* the error thrown, or "none" when the request goes out.
RefreshPrecondition(tokens, cid, endpoint) ==
  CASE ~tokens.ok -> "NoTokens"
    [] tokens.refreshToken = Null -> "NoRefreshToken"
    [] ~Truthy(cid) -> "NoClientId"
    [] ~Truthy(endpoint) -> "NoTokenEndpoint"
    [] OTHER -> "none"

\* retrieveTokens has returned: check, then POST to the token endpoint.
RefreshCheck(t) ==
  LET r == task[t]
      e == RefreshPrecondition(r.tokens, clientId, tokenEndpoint)
  IN /\ r.pc = "rf_check"
     /\ Set(t, IF e # "none"
               THEN Throw(r, e, 0)
               ELSE [r EXCEPT !.pc = "rf_fetch", !.posts = @ + 1])
     /\ UNCHANGED <<store, shared>>

\* Faulty variant: a failed refresh keeps the stored tokens.
OnRefreshResponse_KeepStale(r, s, body) ==
  IF s \in OkStatuses
  THEN StoreTokensCall([r EXCEPT !.idp = s], body, "rf_stored")
  ELSE [r EXCEPT !.idp = s, !.pc = "rf_removed"]

\* What refreshTokens does with a response of the token endpoint.
OnRefreshResponse(r, s, body) ==
  IF s \in OkStatuses
  THEN StoreTokensCall([r EXCEPT !.idp = s], body, "rf_stored")
  ELSE RemoveTokensCall([r EXCEPT !.idp = s], "rf_removed")

\* The token endpoint answers: 2xx with a token response, or non-2xx.
RefreshResponse(t) ==
  LET r == task[t]
  IN /\ r.pc = "rf_fetch"
     /\ \E s \in OkStatuses \cup FailStatuses :
          \E body \in (IF s \in OkStatuses THEN Responses ELSE {NoResp}) :
            Set(t, OnRefreshResponse(r, s, body))
     /\ UNCHANGED <<store, shared>>

\* fetch rejects (no connection), or a 2xx body is not JSON: the error escapes
\* refreshTokens before the store is touched.
RefreshTransportError(t) ==
  LET r == task[t]
  IN /\ r.pc = "rf_fetch"
     /\ \E e \in {"NetworkError", "SyntaxError"} :
          Set(t, Throw(r, e, 0))
     /\ UNCHANGED <<store, shared>>

\* storeTokens has returned: refreshTokens returns the token response.
RefreshStored(t) ==
  LET r == task[t]
  IN /\ r.pc = "rf_stored"
     /\ Set(t, Return([r EXCEPT !.rret = r.resp]))
     /\ UNCHANGED <<store, shared>>

\* removeTokens has returned: refreshTokens throws the status of the response.
RefreshRemoved(t) ==
  LET r == task[t]
  IN /\ r.pc = "rf_removed"
     /\ Set(t, Throw(r, "RefreshFailed", r.idp))
     /\ UNCHANGED <<store, shared>>

----------------------------------------------------------------------------
(* AuthProvider.refreshAccessToken *)

RefreshAccessToken(t) ==
  /\ Free(t)
  /\ Set(t, RefreshTokensCall([IdleTask EXCEPT !.op = "refreshAccessToken"],
                              "ra_done"))
  /\ UNCHANGED <<store, shared>>

RefreshAccessTokenDone(t) ==
  LET r == task[t]
  IN /\ r.pc = "ra_done"
     /\ Set(t, Finish(r, "ok"))
     /\ UNCHANGED <<store, shared>>

----------------------------------------------------------------------------
(* AuthRestService: get / post / put / delete through the interceptors *)

\* getAccessToken: tokens?.accessToken ?? null
AccessTokenOf(tokens) == IF tokens.ok THEN tokens.accessToken ELSE Null

\* Faulty variant: the header is assigned without the test on the token.
Attach_Unconditional(header, token) == token

\* if (token) config.headers.Authorization = `Bearer ${token}`
Attach(header, token) == IF token # Null THEN token ELSE header

\* A verb is called, with or without an Authorization header in its config:
\* the request interceptor asks for the access token.
GatewayRequest(t) ==
  /\ Free(t)
  /\ \E h \in Tokens \cup {Null} :
       Set(t, RetrieveTokensCall(
                [IdleTask EXCEPT !.op = "gateway", !.header = h, !.preset = h],
                "gw_send"))
  /\ UNCHANGED <<store, shared>>

\* The request interceptor returns the config: the request is transmitted.
GatewaySend(t) ==
  LET r == task[t]
  IN /\ r.pc = "gw_send"
     /\ r.sends < MaxSends
     /\ LET h == Attach(r.header, AccessTokenOf(r.tokens))
        IN Set(t, [r EXCEPT !.pc = "gw_wait",
                            !.header = h,
                            !.first = IF r.sends = 0 THEN h ELSE r.first,
                            !.atSend = store[ACCESS_TOKEN],
                            !.sends = @ + 1])
     /\ UNCHANGED <<store, shared>>

\* The response interceptor's fulfilled handler: the verb returns the body.
GatewayResponse(t) ==
  LET r == task[t]
  IN /\ r.pc = "gw_wait"
     /\ \E s \in OkStatuses :
          Set(t, Finish([r EXCEPT !.status = s, !.envErr = "none"], "ok"))
     /\ UNCHANGED <<store, shared>>

\* Faulty variant: the interceptor forgets the one-shot _retry flag.
ShouldRefresh_IgnoreRetry(s, retry) == s = Unauthorized

\* error.response.status === 401 && !originalRequest._retry
ShouldRefresh(s, retry) == s = Unauthorized /\ ~retry

\* The response interceptor's rejected handler.  An error without a response
\* makes the read of error.response.status throw a TypeError.
OnRejected(r, hasResponse, s) ==
  IF ~hasResponse
  THEN Throw(r, "TypeError", 0)
  ELSE IF ShouldRefresh(s, r.retry)
       THEN RefreshTokensCall([r EXCEPT !.retry = TRUE], "gw_refreshed")
       ELSE Throw(r, "AxiosError", s)

\* axios rejects the transmission: a response with an error status...
GatewayErrorResponse(t) ==
  LET r == task[t]
  IN /\ r.pc = "gw_wait"
     /\ \E s \in FailStatuses :
          Set(t, OnRejected([r EXCEPT !.status = s, !.envErr = "AxiosError"],
                            TRUE, s))
     /\ UNCHANGED <<store, shared>>

\* ... or no response at all (network failure, timeout).
GatewayNetworkError(t) ==
  LET r == task[t]
  IN /\ r.pc = "gw_wait"
     /\ Set(t, OnRejected([r EXCEPT !.status = 0, !.envErr = "NetworkError"],
                          FALSE, 0))
     /\ UNCHANGED <<store, shared>>

\* refreshTokens has returned: getAccessToken.
GatewayRefreshed(t) ==
  LET r == task[t]
  IN /\ r.pc = "gw_refreshed"
     /\ Set(t, RetrieveTokensCall(r, "gw_reattach"))
     /\ UNCHANGED <<store, shared>>

\* Re-attach the token and replay: axiosInstance(originalRequest) runs the
\* request interceptor again.
GatewayReplay(t) ==
  LET r == task[t]
  IN /\ r.pc = "gw_reattach"
     /\ Set(t, RetrieveTokensCall(
                 [r EXCEPT !.header = Attach(r.header, AccessTokenOf(r.tokens))],
                 "gw_send"))
     /\ UNCHANGED <<store, shared>>

----------------------------------------------------------------------------
(* AuthProvider: the effect on the discovery document, handleInitAuth *)

\* Faulty variant: setLoading(false) sits in the try, not in a finally.
InitAuthFailed_NoFinally(r, e) ==
  /\ isAuthenticated' = FALSE
  /\ loading' = loading
  /\ task' = [task EXCEPT ![r.t] = Finish([r.rec EXCEPT !.err = e], "ok")]

\* setIsAuthenticated(false) in the catch, setLoading(false) in the finally.
InitAuthFailed(r, e) ==
  /\ isAuthenticated' = FALSE
  /\ loading' = FALSE
  /\ task' = [task EXCEPT ![r.t] = Finish([r.rec EXCEPT !.err = e], "ok")]

\* setIsAuthenticated(true), setLoading(false) in the finally.
InitAuthSucceeded(r) ==
  /\ isAuthenticated' = TRUE
  /\ loading' = FALSE
  /\ task' = [task EXCEPT ![r.t] = Finish(r.rec, "ok")]

\* Faulty variant: the id token is not checked.
InitAuthTokenCheck_NoIdTokenCheck(tokens) ==
  CASE ~tokens.ok -> "NoTokens"
    [] ~IsDef(tokens.accessToken) -> "NoAccessToken"
    [] ~IsDef(tokens.refreshToken) -> "NoRefreshToken"
    [] OTHER -> "none"

\* The first failing check on the retrieved tokens, or "none".
InitAuthTokenCheck(tokens) ==
  CASE ~tokens.ok -> "NoTokens"
    [] ~IsDef(tokens.accessToken) -> "NoAccessToken"
    [] ~IsDef(tokens.refreshToken) -> "NoRefreshToken"
    [] ~IsDef(tokens.idToken) -> "NoIdToken"
    [] OTHER -> "none"

\* Faulty variant: the expiry test compares the wrong way round.
Expired_Inverted(exp) == exp = "future"

\* isDef(decoded.exp) && decoded.exp < Date.now() / 1000
Expired(exp) == exp = "past"

\* The effect runs with a discovery document: a discovery error ends loading;
\* otherwise handleInitAuth initialises both services and reads the tokens.
UseEffect(t) ==
  /\ Free(t)
  /\ \E d \in Discoveries :
       LET r == [IdleTask EXCEPT !.op = "useEffect", !.doc = d]
       IN IF d.error
          THEN /\ error' = "discovery"
               /\ loading' = FALSE
               /\ Set(t, Finish(r, "ok"))
               /\ UNCHANGED <<store, tokenEndpoint, clientId, svcDiscovery,
                              svcConfig, isAuthenticated>>
          ELSE /\ svcDiscovery' = "set"
               /\ svcConfig' = "set"
               /\ tokenEndpoint' =
                    (IF d.tokenEndpoint = "undefined" THEN "" ELSE d.tokenEndpoint)
               /\ clientId' = "cid"
               /\ Set(t, RetrieveTokensCall(r, "ia_tokens"))
               /\ UNCHANGED <<store, loading, isAuthenticated, error>>

\* retrieveTokens has returned: the checks, jwtDecode, the expiry test.
\* jwtDecode throws on a malformed token; exp is absent, past or future.
InitAuthTokens(t) ==
  LET r == task[t]
      e == InitAuthTokenCheck(r.tokens)
  IN /\ r.pc = "ia_tokens"
     /\ UNCHANGED <<store, tokenEndpoint, clientId, svcDiscovery, svcConfig, error>>
     /\ IF e # "none"
        THEN InitAuthFailed([t |-> t, rec |-> r], e)
        ELSE \E x \in {"invalid", "undefined", "past", "future"} :
               LET rx == [r EXCEPT !.exp = x]
               IN CASE x = "invalid" ->
                         InitAuthFailed([t |-> t, rec |-> rx], "InvalidTokenError")
                    [] Expired(x) /\ ~Truthy(r.doc.tokenEndpoint) ->
                         InitAuthFailed([t |-> t, rec |-> rx], "NoTokenEndpoint")
                    [] Expired(x) /\ Truthy(r.doc.tokenEndpoint) ->
                         /\ Set(t, RefreshTokensCall(rx, "ia_refreshed"))
                         /\ UNCHANGED <<loading, isAuthenticated>>
                    [] OTHER -> InitAuthSucceeded([t |-> t, rec |-> rx])

\* refreshTokens has returned.
InitAuthRefreshed(t) ==
  LET r == task[t]
  IN /\ r.pc = "ia_refreshed"
     /\ InitAuthSucceeded([t |-> t, rec |-> r])
     /\ UNCHANGED <<store, tokenEndpoint, clientId, svcDiscovery, svcConfig, error>>

\* refreshTokens has thrown: the catch and the finally.
InitAuthCatch(t) ==
  LET r == task[t]
  IN /\ r.pc = "ia_catch"
     /\ InitAuthFailed([t |-> t, rec |-> r], r.err)
     /\ UNCHANGED <<store, tokenEndpoint, clientId, svcDiscovery, svcConfig, error>>

----------------------------------------------------------------------------
(* AuthService.endSession and AuthProvider.logout *)

\* logout: await authService.endSession(), which first reads the tokens.
Logout(t) ==
  /\ Free(t)
  /\ Set(t, RetrieveTokensCall(
              Call([IdleTask EXCEPT !.op = "logout"], "es", "lo_ended"),
              "es_check"))
  /\ UNCHANGED <<store, shared>>

\* Faulty variant: endSession posts without testing the refresh token.
EndSessionPrecondition_NoRefreshTokenCheck(tokens, discovery, config) ==
  CASE discovery = "null" -> "NoDiscovery"
    [] config = "null" -> "NoConfig"
    [] ~tokens.ok -> "NoTokens"
    [] OTHER -> "none"

\* The checks of endSession, in the order of the code.
EndSessionPrecondition(tokens, discovery, config) ==
  CASE discovery = "null" -> "NoDiscovery"
    [] config = "null" -> "NoConfig"
    [] ~tokens.ok -> "NoTokens"
    [] tokens.refreshToken = Null -> "NoRefreshToken"
    [] OTHER -> "none"

EndSessionCheck(t) ==
  LET r == task[t]
      e == EndSessionPrecondition(r.tokens, svcDiscovery, svcConfig)
  IN /\ r.pc = "es_check"
     /\ Set(t, IF e # "none"
               THEN Throw(r, e, 0)
               ELSE [r EXCEPT !.pc = "es_fetch", !.posts = @ + 1])
     /\ UNCHANGED <<store, shared>>

\* The end-session endpoint answers: 2xx returns, non-2xx throws.
EndSessionResponse(t) ==
  LET r == task[t]
  IN /\ r.pc = "es_fetch"
     /\ \E s \in OkStatuses \cup FailStatuses :
          Set(t, IF s \in OkStatuses
                 THEN Return([r EXCEPT !.idp = s])
                 ELSE Throw([r EXCEPT !.idp = s], "EndSessionFailed", s))
     /\ UNCHANGED <<store, shared>>

\* fetch rejects.
EndSessionTransportError(t) ==
  LET r == task[t]
  IN /\ r.pc = "es_fetch"
     /\ Set(t, Throw(r, "NetworkError", 0))
     /\ UNCHANGED <<store, shared>>

\* endSession has returned: await authTokenService.removeTokens().
LogoutEnded(t) ==
  LET r == task[t]
  IN /\ r.pc = "lo_ended"
     /\ Set(t, RemoveTokensCall(r, "lo_removed"))
     /\ UNCHANGED <<store, shared>>

\* removeTokens has returned: setIsAuthenticated(false), status "success".
LogoutRemoved(t) ==
  LET r == task[t]
  IN /\ r.pc = "lo_removed"
     /\ isAuthenticated' = FALSE
     /\ Set(t, Finish(r, "success"))
     /\ UNCHANGED <<store, tokenEndpoint, clientId, svcDiscovery, svcConfig,
                    loading, error>>

\* The catch of logout: status "failure" with the error, nothing else.
LogoutCatch(t) ==
  LET r == task[t]
  IN /\ r.pc = "lo_catch"
     /\ Set(t, Finish(r, "failure"))
     /\ UNCHANGED <<store, shared>>

----------------------------------------------------------------------------
(* AuthProvider.login and AuthService.requestAccessToken *)

\* What promptAsync resolves to: null, a result whose type is not "success"
\* (cancel, dismiss, error), a success with or without params.code.
PromptOutcomes == {"null", "cancel", "noCode", "success"}

\* The auth request of useAuthRequest: null, or with or without a codeVerifier.
Requests == {"null", "noVerifier", "ok"}

\* await promptAsync()
Login(t) ==
  /\ Free(t)
  /\ Set(t, [IdleTask EXCEPT !.op = "login", !.pc = "li_prompt"])
  /\ UNCHANGED <<store, shared>>

\* Faulty variant: login does not test params.code.
LoginPrecondition_NoCodeCheck(p, q) ==
  CASE q = "null" -> "NoRequest"
    [] p \in {"null", "cancel"} -> "NoSuccess"
    [] q = "noVerifier" -> "NoCodeVerifier"
    [] OTHER -> "none"

\* The checks of login after the prompt, in the order of the code.
LoginPrecondition(p, q) ==
  CASE q = "null" -> "NoRequest"
    [] p \in {"null", "cancel"} -> "NoSuccess"
    [] p = "noCode" -> "NoCode"
    [] q = "noVerifier" -> "NoCodeVerifier"
    [] OTHER -> "none"

\* The checks of requestAccessToken, in the order of the code.
ExchangePrecondition(discovery, config) ==
  CASE discovery = "null" -> "NoDiscovery"
    [] config = "null" -> "NoConfig"
    [] OTHER -> "none"

\* The catch of login: setIsAuthenticated(false), status "failure" with the error.
LoginFailed(t, r, e) ==
  /\ isAuthenticated' = FALSE
  /\ Set(t, Finish([r EXCEPT !.err = e], "failure"))
  /\ UNCHANGED <<store, tokenEndpoint, clientId, svcDiscovery, svcConfig,
                 loading, error>>

\* The prompt resolves: the checks of login, then requestAccessToken up to
\* its fetch.  A failed check of requestAccessToken is caught inside it and
\* makes it return null.
LoginPrompted(t) ==
  LET r == task[t]
  IN /\ r.pc = "li_prompt"
     /\ \E p \in PromptOutcomes, q \in Requests :
          LET w == [r EXCEPT !.prompt = p, !.req = q]
              e == LoginPrecondition(p, q)
          IN IF e # "none"
             THEN LoginFailed(t, w, e)
             ELSE /\ Set(t, IF ExchangePrecondition(svcDiscovery, svcConfig) # "none"
                            THEN [w EXCEPT !.pc = "li_exchanged", !.xret = "null"]
                            ELSE Call([w EXCEPT !.posts = @ + 1],
                                      "xc_fetch", "li_exchanged"))
                  /\ UNCHANGED <<store, shared>>

\* promptAsync rejects.
LoginPromptError(t) ==
  LET r == task[t]
  IN /\ r.pc = "li_prompt"
     /\ LoginFailed(t, [r EXCEPT !.prompt = "rejected"], "PromptError")

\* return await tokenRequestResponse.json(): the status is not looked at.
OnExchangeResponse(r, s, body) ==
  Return([r EXCEPT !.idp = s, !.resp = body, !.xret = "body"])

\* The token endpoint answers the code exchange: a 2xx carries a token
\* response, a non-2xx an error document, which has none of the three token
\* fields.
ExchangeResponse(t) ==
  LET r == task[t]
  IN /\ r.pc = "xc_fetch"
     /\ \E s \in OkStatuses \cup FailStatuses :
        \E body \in IF s \in OkStatuses THEN Responses ELSE {NoResp} :
          Set(t, OnExchangeResponse(r, s, body))
     /\ UNCHANGED <<store, shared>>

\* fetch rejects, or the body is not JSON: caught, requestAccessToken
\* returns null.
ExchangeTransportError(t) ==
  LET r == task[t]
  IN /\ r.pc = "xc_fetch"
     /\ \E e \in {"NetworkError", "SyntaxError"} :
          Set(t, Return([r EXCEPT !.xret = "null", !.envErr = e]))
     /\ UNCHANGED <<store, shared>>

\* requestAccessToken has returned: the isDef test, then storeTokens.
LoginExchanged(t) ==
  LET r == task[t]
  IN /\ r.pc = "li_exchanged"
     /\ IF r.xret = "null"
        THEN LoginFailed(t, r, "TokensNotDefined")
        ELSE /\ Set(t, StoreTokensCall(r, r.resp, "li_stored"))
             /\ UNCHANGED <<store, shared>>

\* storeTokens has returned: setIsAuthenticated(true), status "success".
LoginStored(t) ==
  LET r == task[t]
  IN /\ r.pc = "li_stored"
     /\ isAuthenticated' = TRUE
     /\ Set(t, Finish(r, "success"))
     /\ UNCHANGED <<store, tokenEndpoint, clientId, svcDiscovery, svcConfig,
                    loading, error>>

\* storeTokens rejected: the catch of login.
LoginCatch(t) ==
  LET r == task[t]
  IN /\ r.pc = "li_catch"
     /\ LoginFailed(t, r, r.err)

----------------------------------------------------------------------------
(* A caller of the token service: storeTokens(response), then retrieveTokens() *)

StoreTokens(t) ==
  /\ Free(t)
  /\ \E body \in Responses :
       Set(t, StoreTokensCall([IdleTask EXCEPT !.op = "storeTokens"], body,
                              "sr_stored"))
  /\ UNCHANGED <<store, shared>>

StoreTokensReturned(t) ==
  LET r == task[t]
  IN /\ r.pc = "sr_stored"
     /\ Set(t, RetrieveTokensCall(r, "sr_retrieved"))
     /\ UNCHANGED <<store, shared>>

RetrieveTokensReturned(t) ==
  LET r == task[t]
  IN /\ r.pc = "sr_retrieved"
     /\ Set(t, Finish(r, "ok"))
     /\ UNCHANGED <<store, shared>>

----------------------------------------------------------------------------
(* AuthTokenService.getAccessToken, called by the application *)

GetAccessToken(t) ==
  /\ Free(t)
  /\ Set(t, RetrieveTokensCall([IdleTask EXCEPT !.op = "getAccessToken"],
                               "ga_done"))
  /\ UNCHANGED <<store, shared>>

\* retrieveTokens has returned: return tokens?.accessToken ?? null
GetAccessTokenDone(t) ==
  LET r == task[t]
  IN /\ r.pc = "ga_done"
     /\ Set(t, Finish([r EXCEPT !.got = AccessTokenOf(r.tokens)], "ok"))
     /\ UNCHANGED <<store, shared>>

----------------------------------------------------------------------------
(* Specifications *)

\* An entry point is called.
Enter(t) ==
  \/ UseEffect(t)
  \/ Login(t)
  \/ Logout(t)
  \/ RefreshAccessToken(t)
  \/ GatewayRequest(t)
  \/ StoreTokens(t)
  \/ GetAccessToken(t)

\* A running operation advances by one await.
Step(t) ==
  \/ RetrieveRead(t) \/ RetrieveFail(t)
  \/ StoreWrite(t) \/ StoreFail(t)
  \/ RemoveDelete(t) \/ RemoveFail(t)
  \/ RefreshCheck(t) \/ RefreshResponse(t) \/ RefreshTransportError(t)
  \/ RefreshStored(t) \/ RefreshRemoved(t)
  \/ RefreshAccessTokenDone(t)
  \/ GatewaySend(t) \/ GatewayResponse(t) \/ GatewayErrorResponse(t)
  \/ GatewayNetworkError(t) \/ GatewayRefreshed(t) \/ GatewayReplay(t)
  \/ InitAuthTokens(t) \/ InitAuthRefreshed(t) \/ InitAuthCatch(t)
  \/ EndSessionCheck(t) \/ EndSessionResponse(t) \/ EndSessionTransportError(t)
  \/ LogoutEnded(t) \/ LogoutRemoved(t) \/ LogoutCatch(t)
  \/ LoginPrompted(t) \/ LoginPromptError(t)
  \/ ExchangeResponse(t) \/ ExchangeTransportError(t)
  \/ LoginExchanged(t) \/ LoginStored(t) \/ LoginCatch(t)
  \/ StoreTokensReturned(t) \/ RetrieveTokensReturned(t)
  \/ GetAccessTokenDone(t)

\* Operations of the application run one at a time, on one task.
NextSolo ==
  \/ (\A u \in Tasks : Free(u)) /\ Enter("t1")
  \/ Step("t1")

SpecSolo == Init /\ [][NextSolo]_vars

\* The effect and the operations the context and the Gateway offer, one at a
\* time, where every pending storage and HTTP call of a startup eventually
\* completes.
EnterStartup(t) ==
  \/ UseEffect(t)
  \/ Login(t)
  \/ Logout(t)
  \/ RefreshAccessToken(t)
  \/ GatewayRequest(t)

StepStartup(t) ==
  \/ RetrieveRead(t) \/ RetrieveFail(t)
  \/ StoreWrite(t) \/ StoreFail(t)
  \/ RemoveDelete(t) \/ RemoveFail(t)
  \/ RefreshCheck(t) \/ RefreshResponse(t) \/ RefreshTransportError(t)
  \/ RefreshStored(t) \/ RefreshRemoved(t)
  \/ RefreshAccessTokenDone(t)
  \/ GatewaySend(t) \/ GatewayResponse(t) \/ GatewayErrorResponse(t)
  \/ GatewayNetworkError(t) \/ GatewayRefreshed(t) \/ GatewayReplay(t)
  \/ InitAuthTokens(t) \/ InitAuthRefreshed(t) \/ InitAuthCatch(t)
  \/ EndSessionCheck(t) \/ EndSessionResponse(t) \/ EndSessionTransportError(t)
  \/ LogoutEnded(t) \/ LogoutRemoved(t) \/ LogoutCatch(t)
  \/ LoginPrompted(t) \/ LoginPromptError(t)
  \/ ExchangeResponse(t) \/ ExchangeTransportError(t)
  \/ LoginExchanged(t) \/ LoginStored(t) \/ LoginCatch(t)

NextStartup ==
  \/ (\A u \in Tasks : Free(u)) /\ EnterStartup("t1")
  \/ StepStartup("t1")

\* A pending call of a running startup completes.
StartupStep == task["t1"].op = "useEffect" /\ StepStartup("t1")

SpecStartup == Init /\ [][NextStartup]_vars /\ WF_vars(StartupStep)

\* Operations overlap: any task may enter or advance at any time.
Next == \E t \in Tasks : Enter(t) \/ Step(t)

Spec == Init /\ [][Next]_vars

\* Two calls overlap in a started, signed-in application: the services are
\* initialised and the store holds the three tokens of one issue.
InitRace ==
  /\ store \in {[k \in Keys |-> v] : v \in Tokens}
  /\ tokenEndpoint = "url"
  /\ clientId = "cid"
  /\ svcDiscovery = "set"
  /\ svcConfig = "set"
  /\ loading = FALSE
  /\ isAuthenticated = TRUE
  /\ error = "null"
  /\ task = [t \in Tasks |-> IdleTask]

\* The calls that overlap: a refresh, and a second refresh or a read.
EnterRace(t) ==
  /\ task[t].pc = "idle"
  /\ \/ RefreshAccessToken(t)
     \/ t = "t2" /\ GetAccessToken(t)

StepRace(t) ==
  \/ RetrieveRead(t) \/ RetrieveFail(t)
  \/ StoreWrite(t) \/ StoreFail(t)
  \/ RemoveDelete(t) \/ RemoveFail(t)
  \/ RefreshCheck(t) \/ RefreshResponse(t) \/ RefreshTransportError(t)
  \/ RefreshStored(t) \/ RefreshRemoved(t)
  \/ RefreshAccessTokenDone(t)
  \/ GetAccessTokenDone(t)

NextRace == \E t \in Tasks : EnterRace(t) \/ StepRace(t)

SpecRace == InitRace /\ [][NextRace]_vars

\* A Gateway request overlaps a refreshAccessToken call of the application,
\* in a started, signed-in application whose storage calls all succeed.
EnterReplay(t) ==
  /\ task[t].pc = "idle"
  /\ \/ t = "t1" /\ GatewayRequest(t)
     \/ t = "t2" /\ RefreshAccessToken(t)

StepReplay(t) ==
  \/ RetrieveRead(t)
  \/ StoreWrite(t)
  \/ RemoveDelete(t)
  \/ RefreshCheck(t) \/ RefreshResponse(t)
  \/ RefreshStored(t) \/ RefreshRemoved(t)
  \/ RefreshAccessTokenDone(t)
  \/ GatewaySend(t) \/ GatewayResponse(t) \/ GatewayErrorResponse(t)
  \/ GatewayRefreshed(t) \/ GatewayReplay(t)

NextReplay == \E t \in Tasks : EnterReplay(t) \/ StepReplay(t)

SpecReplay == InitRace /\ [][NextReplay]_vars

\* logout is called while a refreshAccessToken call is in flight, in a
\* started, signed-in application whose storage calls all succeed.
EnterLogout(t) ==
  /\ task[t].pc = "idle"
  /\ \/ t = "t1" /\ RefreshAccessToken(t)
     \/ t = "t2" /\ Logout(t)

StepLogout(t) ==
  \/ RetrieveRead(t)
  \/ StoreWrite(t)
  \/ RemoveDelete(t)
  \/ RefreshCheck(t) \/ RefreshResponse(t) \/ RefreshTransportError(t)
  \/ RefreshStored(t) \/ RefreshRemoved(t)
  \/ RefreshAccessTokenDone(t)
  \/ EndSessionCheck(t) \/ EndSessionResponse(t) \/ EndSessionTransportError(t)
  \/ LogoutEnded(t) \/ LogoutRemoved(t) \/ LogoutCatch(t)

NextLogout == \E t \in Tasks : EnterLogout(t) \/ StepLogout(t)

SpecLogout == InitRace /\ [][NextLogout]_vars

----------------------------------------------------------------------------
(* Properties *)

RefreshCallers == {"refreshAccessToken", "gateway", "useEffect"}

\* The errors refreshTokens can throw.
RefreshErrors ==
  {"NoTokens", "NoRefreshToken", "NoClientId", "NoTokenEndpoint",
   "NetworkError", "SyntaxError", "StorageError", "RefreshFailed"}

StoreEmpty == \A k \in Keys : store[k] = Null

\* C1: one Gateway call never makes more than one refreshTokens call nor more
\* than two transmissions; a call whose first response was 401 and whose replay
\* succeeded made exactly one refresh and two transmissions; a replay answered
\* 401 is rejected with that 401 and no second refresh.
C1_RefreshOnceRetryOnce ==
  \A t \in Tasks :
    LET r == task[t]
    IN r.op = "gateway" =>
         /\ r.refreshes <= 1
         /\ r.sends <= 2
         /\ (r.pc = "done" /\ r.retry /\ r.ret = "ok") =>
              (r.refreshes = 1 /\ r.sends = 2)
         /\ (r.pc = "done" /\ r.sends = 2 /\ r.envErr = "AxiosError"
               /\ r.status = Unauthorized) =>
              (r.ret = "throw" /\ r.err = "AxiosError"
                 /\ r.errStatus = Unauthorized /\ r.refreshes = 1)

C1_Witness ==
  \E t \in Tasks :
    LET r == task[t]
    IN r.op = "gateway" /\ r.pc = "done" /\ r.retry /\ r.sends = 2
         /\ r.status = Unauthorized /\ r.ret = "throw"

\* refreshTokens has just settled in task r: it returned to its caller, or
\* its rejection reached the caller's handler.
RefreshReturnedTo(r) == r.pc \in {"ra_done", "gw_refreshed", "ia_refreshed"}
RefreshRejectedIn(r) ==
  /\ r.op \in RefreshCallers
  /\ r.refreshes > 0
  /\ r.rret = NoResp
  /\ \/ r.pc = "ia_catch"
     \/ r.pc = "done" /\ r.op # "useEffect" /\ r.err \in RefreshErrors

C3_RefreshOverwritesAll ==
  \A t \in Tasks :
    LET r == task[t]
    IN (r.op \in RefreshCallers /\ RefreshReturnedTo(r)) =>
         /\ r.idp \in OkStatuses
         /\ r.rret \in Responses
         /\ r.rret = r.resp
         /\ store[ACCESS_TOKEN] = r.rret.access_token
         /\ store[REFRESH_TOKEN] = r.rret.refresh_token
         /\ store[ID_TOKEN] = r.rret.id_token

C3_Witness ==
  \E t \in Tasks :
    LET r == task[t]
    IN /\ r.op = "refreshAccessToken" /\ r.pc = "ra_done"
       /\ r.tokens.accessToken # r.rret.access_token
       /\ r.rret.access_token # r.rret.refresh_token

\* The not-initialized class of error.
NotInitialized == {"NoClientId", "NoTokenEndpoint"}

\* C4 (as claimed): refreshTokens called before init fails with the
\* not-initialized class of error whatever the store holds.
C4_NotInitializedWhateverStore ==
  \A t \in Tasks :
    LET r == task[t]
    IN (RefreshRejectedIn(r) /\ clientId = "null") => r.err \in NotInitialized

\* C4 (amended): refreshTokens called before init always fails, without sending
\* a request and without touching the store; the error is of the
\* not-initialized class exactly when the tokens could be read and hold a
\* refresh token, else it is the no-tokens / no-refresh-token error.
C4_NotInitializedAfterTokenChecks ==
  \A t \in Tasks :
    LET r == task[t]
    IN /\ (r.op \in RefreshCallers /\ r.refreshes > 0 /\ clientId = "null"
             /\ r.pc \notin {"rt_accessToken", "rt_refreshToken", "rt_idToken",
                             "rf_check"}) =>
            (RefreshRejectedIn(r) /\ r.posts = 0 /\ ~r.wrote)
       /\ (RefreshRejectedIn(r) /\ clientId = "null") =>
            r.err = (CASE ~r.tokens.ok -> "NoTokens"
                       [] r.tokens.refreshToken = Null -> "NoRefreshToken"
                       [] OTHER -> "NoClientId")

C4_Witness ==
  \E t \in Tasks :
    LET r == task[t]
    IN /\ RefreshRejectedIn(r) /\ clientId = "null"
       /\ r.err = "NoClientId" /\ r.tokens.refreshToken # Null

\* The failures of endSession the claim names: a non-2xx answer, missing
\* tokens, missing configuration.
EndSessionErrors ==
  {"EndSessionFailed", "NoDiscovery", "NoConfig", "NoTokens", "NoRefreshToken"}

\* C5: when endSession fails, logout still removes the three stored tokens,
\* sets isAuthenticated to false and returns a failure result with the error.
C5_LogoutClearsAfterFailedEndSession ==
  \A t \in Tasks :
    LET r == task[t]
    IN (r.op = "logout" /\ r.pc = "done" /\ r.err \in EndSessionErrors) =>
         (StoreEmpty /\ ~isAuthenticated /\ r.ret = "failure")


\* Startup found the three tokens and decoded an access token whose exp is in
\* the past.
StartupExpired(r) == r.op = "useEffect" /\ r.exp = "past"

\* C6, the states: startup with an expired access token calls refreshTokens
\* only when the discovery document has a token endpoint; it ends
\* authenticated exactly when refreshTokens returned, and then the stored
\* access token is the one of the refresh response.
C6_StartupStates ==
  \A t \in Tasks :
    LET r == task[t]
    IN StartupExpired(r) =>
         /\ r.refreshes > 0 => Truthy(r.doc.tokenEndpoint)
         /\ r.pc = "ia_refreshed" =>
              (r.rret \in Responses /\ r.rret = r.resp
                 /\ store[ACCESS_TOKEN] = r.rret.access_token)
         /\ r.pc = "done" =>
              /\ isAuthenticated <=> r.rret \in Responses
              /\ isAuthenticated => store[ACCESS_TOKEN] = r.rret.access_token

\* C6, the steps: during such a startup isAuthenticated is set to true only
\* by the step that follows the return of refreshTokens.
C6_StartupSteps ==
  \A t \in Tasks :
    (StartupExpired(task'[t]) /\ isAuthenticated' /\ ~isAuthenticated) =>
      (task[t].pc = "ia_refreshed" /\ task'[t].pc = "done"
         /\ task[t].rret \in Responses)

\* C6: during startup with the three tokens stored and an expired access
\* token, isAuthenticated is not set to true before refreshTokens has returned
\* successfully, refresh is attempted only with a token endpoint in the
\* discovery document, and on success isAuthenticated becomes true with the
\* refreshed access token stored.
C6_ExpiredStartupRefreshesFirst ==
  [](C6_StartupStates) /\ [][C6_StartupSteps]_vars

C6_Witness ==
  \E t \in Tasks :
    LET r == task[t]
    IN /\ StartupExpired(r) /\ r.pc = "done" /\ isAuthenticated
       /\ r.tokens.accessToken # store[ACCESS_TOKEN]

\* C7: every failure during startup ends with isAuthenticated = false and
\* loading = false, and handleInitAuth does not reject.
C7_StartupFailureDegrades ==
  \A t \in Tasks :
    LET r == task[t]
    IN /\ r.op = "useEffect" => r.ret # "throw"
       /\ (r.op = "useEffect" /\ r.pc = "done" /\ r.err # "none") =>
            (~isAuthenticated /\ ~loading /\ r.ret = "ok")

C7_Witness ==
  \E t \in Tasks :
    LET r == task[t]
    IN /\ r.op = "useEffect" /\ r.pc = "done" /\ r.err = "RefreshFailed"
       /\ ~isAuthenticated /\ ~loading

\* C8: storeTokens followed at once by retrieveTokens, with no storage failure,
\* returns the three values written.
C8_StoreRetrieveRoundTrip ==
  \A t \in Tasks :
    LET r == task[t]
    IN (r.op = "storeTokens" /\ r.pc = "done" /\ r.ret = "ok" /\ r.tokens.ok) =>
         /\ r.tokens.accessToken = r.resp.access_token
         /\ r.tokens.refreshToken = r.resp.refresh_token
         /\ r.tokens.idToken = r.resp.id_token

C8_Witness ==
  \E t \in Tasks :
    LET r == task[t]
    IN /\ r.op = "storeTokens" /\ r.pc = "done" /\ r.ret = "ok" /\ r.tokens.ok
       /\ r.resp.access_token # r.resp.refresh_token
       /\ r.resp.refresh_token # r.resp.id_token

\* C9: when a Gateway request gets a 401 and the refresh it triggers throws,
\* the call fails with the refresh error and the request is not replayed.
C9_RefreshErrorPropagates ==
  \A t \in Tasks :
    LET r == task[t]
    IN /\ (r.op = "gateway" /\ r.retry /\ r.rret = NoResp) => r.sends = 1
       /\ (r.op = "gateway" /\ r.pc = "done" /\ r.retry /\ r.rret = NoResp) =>
            /\ r.ret = "throw"
            /\ r.err \in RefreshErrors
            /\ r.err = "RefreshFailed" => r.errStatus = r.idp
            /\ r.idp \in FailStatuses =>
                 r.err \in {"RefreshFailed", "StorageError"}

C9_Witness ==
  \E t \in Tasks :
    LET r == task[t]
    IN /\ r.op = "gateway" /\ r.pc = "done" /\ r.retry /\ r.sends = 1
       /\ r.err = "RefreshFailed" /\ r.errStatus = 400

\* C10: a Gateway error other than a first 401 (another status, no response at
\* all, a failure of the replayed request) reaches the caller as that same
\* error, with no refreshTokens call made for it and the store untouched.
C10_OtherErrorsPropagateUnchanged ==
  \A t \in Tasks :
    LET r == task[t]
    IN (r.op = "gateway" /\ r.pc = "done" /\ r.envErr # "none"
          /\ ~(r.sends = 1 /\ r.status = Unauthorized)) =>
         /\ r.ret = "throw"
         /\ r.err = r.envErr
         /\ r.errStatus = r.status
         /\ r.refreshes = r.sends - 1
         /\ r.sends = 1 => ~r.wrote


\* C11: the first transmission of a Gateway request carries the access token
\* the store holds when the request interceptor runs, and the caller's own
\* header, untouched, when the access token is absent or the store read fails.
C11_FirstSendCarriesStoredToken ==
  \A t \in Tasks :
    LET r == task[t]
    IN (r.op = "gateway" /\ r.pc = "gw_wait" /\ r.sends = 1) =>
         /\ r.first = r.header
         /\ (r.tokens.ok /\ store[ACCESS_TOKEN] # Null) =>
              r.header = store[ACCESS_TOKEN]
         /\ (~r.tokens.ok \/ store[ACCESS_TOKEN] = Null) =>
              r.header = r.preset

C11_Witness ==
  \E t \in Tasks :
    LET r == task[t]
    IN /\ r.op = "gateway" /\ r.pc = "gw_wait" /\ r.sends = 1
       /\ ~r.tokens.ok /\ store[ACCESS_TOKEN] # Null
       /\ r.preset # Null /\ r.header = r.preset
       /\ r.preset # store[ACCESS_TOKEN]


\* C12: requestAccessToken returns null on every failure of the code exchange
\* (discovery or config unset, transport error, unparsable body, non-2xx
\* answer of the token endpoint) and a token response only when the exchange
\* succeeded.
C12_ExchangeNullOnEveryFailure ==
  \A t \in Tasks :
    LET r == task[t]
    IN (r.op = "login" /\ r.pc = "li_exchanged") =>
         /\ r.xret \in {"null", "body"}
         /\ r.xret = "body" <=> (r.posts = 1 /\ r.idp \in OkStatuses)


\* What retrieveTokens returned is what the store holds.
StoreIs(tokens) ==
  /\ store[ACCESS_TOKEN] = tokens.accessToken
  /\ store[REFRESH_TOKEN] = tokens.refreshToken
  /\ store[ID_TOKEN] = tokens.idToken

\* C13: endSession returns only when discovery, config, the token set and the
\* refresh token were there and the end-session endpoint answered 2xx, and
\* throws otherwise (also when the request gets no answer); when it settles,
\* either way, it has written no key and the store holds what it read.
C13_EndSessionThrowsAndKeepsStore ==
  \A t \in Tasks :
    LET r == task[t]
        settled == r.pc = "lo_ended" \/ (r.pc = "lo_catch" /\ r.err # "StorageError")
    IN (r.op = "logout" /\ settled) =>
         /\ ~r.wrote
         /\ r.tokens.ok => StoreIs(r.tokens)
         /\ r.pc = "lo_ended" <=>
              /\ svcDiscovery # "null" /\ svcConfig # "null"
              /\ r.tokens.ok /\ r.tokens.refreshToken # Null
              /\ r.posts = 1 /\ r.idp \in OkStatuses
         /\ r.pc = "lo_catch" =>
              /\ r.err \in EndSessionErrors \cup {"NetworkError"}
              /\ r.err = "EndSessionFailed" <=> r.idp \in FailStatuses
              /\ r.err = "NetworkError" => (r.posts = 1 /\ r.idp = 0)
              /\ r.err \in {"NoDiscovery", "NoConfig", "NoTokens", "NoRefreshToken"}
                   => r.posts = 0

C13_Witness ==
  \E t \in Tasks :
    LET r == task[t]
    IN /\ r.op = "logout" /\ r.pc = "lo_catch" /\ r.err = "EndSessionFailed"
       /\ ~r.wrote /\ \A k \in Keys : store[k] # Null


\* The store holds exactly the three tokens of a token response.
StoreHolds(resp) ==
  /\ store[ACCESS_TOKEN] = resp.access_token
  /\ store[REFRESH_TOKEN] = resp.refresh_token
  /\ store[ID_TOKEN] = resp.id_token

\* Both tasks ran refreshTokens, got a 2xx and completed.
BothRefreshed ==
  \A t \in Tasks :
    /\ task[t].op = "refreshAccessToken" /\ task[t].pc = "done"
    /\ task[t].ret = "ok" /\ task[t].idp \in OkStatuses

\* C14: when two overlapping refreshTokens calls both got a 2xx and completed,
\* the store holds the three tokens of one of the two responses.
C14_ConcurrentRefreshNoMixture ==
  BothRefreshed => \E t \in Tasks : StoreHolds(task[t].resp)


\* A retrieved TokenSet has the three tokens of a token response.
SameTokens(tokens, resp) ==
  /\ tokens.accessToken = resp.access_token
  /\ tokens.refreshToken = resp.refresh_token
  /\ tokens.idToken = resp.id_token

\* C15: a retrieveTokens that overlaps a successful refresh, none of whose
\* writes failed, returns either the TokenSet the refresh started from or the
\* one of the new response.
C15_RefreshRewriteIsAtomic ==
  LET w == task["t1"]
      reader == task["t2"]
  IN (/\ w.op = "refreshAccessToken" /\ w.idp \in OkStatuses /\ w.err = "none"
      /\ reader.op = "getAccessToken" /\ reader.pc = "done" /\ reader.tokens.ok)
     => \/ reader.tokens = w.tokens
        \/ SameTokens(reader.tokens, w.resp)


\* C16: login returns "success" only with isAuthenticated true, after a
\* successful prompt with code and code verifier, an exchange that returned a
\* token response, and a storeTokens that completed, the store holding the
\* three tokens of that response; otherwise it returns "failure" with the
\* error and isAuthenticated is false.
C16_LoginSuccessOnlyAfterStore ==
  \A t \in Tasks :
    LET r == task[t]
    IN (r.op = "login" /\ r.pc = "done") =>
         /\ r.ret \in {"success", "failure"}
         /\ r.ret = "success" <=>
              /\ r.prompt = "success" /\ r.req = "ok"
              /\ r.xret = "body" /\ r.err = "none"
              /\ r.wrote /\ StoreHolds(r.resp)
              /\ \A k \in Keys : store[k] # Null
         /\ r.ret = "success" => isAuthenticated
         /\ r.ret = "failure" => (~isAuthenticated /\ r.err # "none")

C16_Witness ==
  \E t \in Tasks :
    LET r == task[t]
    IN /\ r.op = "login" /\ r.pc = "done" /\ r.ret = "success"
       /\ isAuthenticated /\ StoreHolds(r.resp) /\ r.tokens = NoTokens


\* C17: retrieveTokens and getAccessToken never throw; when a storage read
\* raised an exception retrieveTokens returns null as a whole and
\* getAccessToken returns null; when the reads succeeded every field is the
\* stored value of its key, null for a missing key, and getAccessToken returns
\* the access-token field.
C17_RetrieveNeverThrows ==
  \A t \in Tasks :
    LET r == task[t]
    IN (r.op = "getAccessToken" /\ r.pc \in {"ga_done", "done"}) =>
         /\ r.err = "none" /\ r.ret # "throw"
         /\ r.readErr <=> ~r.tokens.ok
         /\ r.readErr => r.tokens = NullTokens
         /\ ~r.readErr => StoreIs(r.tokens)
         /\ r.pc = "done" =>
              /\ r.ret = "ok"
              /\ r.got = (IF r.readErr THEN Null ELSE store[ACCESS_TOKEN])

C17_Witness ==
  \E t \in Tasks :
    LET r == task[t]
    IN /\ r.op = "getAccessToken" /\ r.pc = "done" /\ r.readErr
       /\ r.got = Null /\ \A k \in Keys : store[k] # Null


\* The errors of the checks refreshTokens makes before its request.
PreconditionErrors ==
  {"NoTokens", "NoRefreshToken", "NoClientId", "NoTokenEndpoint"}

\* C18: refreshTokens reports the first failing check in the order: tokens
\* could not be retrieved, refresh token absent, client id unset, token
\* endpoint unset or empty; it then has sent no request and written no key, and
\* the store holds what was read.  A request is sent only when all four hold.
C18_RefreshPreconditionOrder ==
  \A t \in Tasks :
    LET r == task[t]
        first == CASE ~r.tokens.ok -> "NoTokens"
                   [] r.tokens.refreshToken = Null -> "NoRefreshToken"
                   [] clientId \in {"null", ""} -> "NoClientId"
                   [] tokenEndpoint \in {"null", ""} -> "NoTokenEndpoint"
                   [] OTHER -> "none"
    IN /\ (RefreshRejectedIn(r) /\ r.err \in PreconditionErrors) =>
            /\ r.err = first
            /\ r.posts = 0 /\ ~r.wrote
            /\ r.tokens.ok => StoreIs(r.tokens)
       /\ (r.op = "refreshAccessToken" /\ r.pc \notin
             {"rt_accessToken", "rt_refreshToken", "rt_idToken", "rf_check"}) =>
            /\ first # "none" => (RefreshRejectedIn(r) /\ r.err = first)
            /\ first = "none" => r.posts = 1

C18_Witness ==
  \E t \in Tasks :
    LET r == task[t]
    IN /\ RefreshRejectedIn(r) /\ r.err = "NoTokenEndpoint"
       /\ tokenEndpoint = "" /\ clientId = "cid"
       /\ r.posts = 0 /\ \A k \in Keys : store[k] # Null


\* handleInitAuth has finished in task r, having found at least one of the
\* three tokens absent.
StartupIncomplete(r) ==
  /\ r.op = "useEffect" /\ r.pc = "done" /\ ~r.doc.error
  /\ IF r.tokens.ok
     THEN \/ r.tokens.accessToken = Null
          \/ r.tokens.refreshToken = Null
          \/ r.tokens.idToken = Null
     ELSE \E k \in Keys : store[k] = Null

\* C19: a startup that finds at least one of the three tokens absent ends with
\* isAuthenticated false and loading false, has not called refreshTokens, has
\* sent no request, has written no key, and the store holds what was read.
C19_IncompleteStoreIsNoSession ==
  \A t \in Tasks :
    LET r == task[t]
    IN StartupIncomplete(r) =>
         /\ ~isAuthenticated /\ ~loading
         /\ r.refreshes = 0 /\ r.posts = 0
         /\ ~r.wrote
         /\ r.tokens.ok => StoreIs(r.tokens)

C19_Witness ==
  \E t \in Tasks :
    LET r == task[t]
    IN /\ StartupIncomplete(r) /\ r.tokens.ok
       /\ store[ACCESS_TOKEN] # Null /\ store[REFRESH_TOKEN] # Null
       /\ store[ID_TOKEN] = Null
       /\ ~isAuthenticated


\* The replay of task r's Gateway request is in flight, after a refresh of its
\* own that succeeded with a new access token; its first transmission
\* carried a token.
ReplaySent(r) ==
  /\ r.op = "gateway" /\ r.pc = "gw_wait" /\ r.sends = 2 /\ r.retry
  /\ r.refreshes = 1 /\ r.rret # NoResp
  /\ r.first # Null /\ r.rret.access_token # r.first

\* C20: a replay sent after a successful refresh never carries the access
\* token of the rejected first transmission, unless that token is the one the
\* store holds at the moment the replay is sent.
C20_ReplayNeverCarriesRejectedToken ==
  \A t \in Tasks :
    LET r == task[t]
    IN ReplaySent(r) => (r.header = r.first => r.atSend = r.first)


\* No operation is in progress, and the last one to run was a refresh, called
\* by refreshAccessToken or by the Gateway after a 401, that the token
\* endpoint answered non-2xx.
AfterFailedRefresh ==
  /\ \A u \in Tasks : Free(u)
  /\ \E t \in Tasks :
       /\ task[t].op \in {"refreshAccessToken", "gateway"}
       /\ task[t].pc = "done" /\ task[t].err = "RefreshFailed"
       /\ task[t].idp \in FailStatuses

\* C21: with no operation in progress, after a refresh that failed with a
\* non-2xx answer, isAuthenticated true implies that the store holds an access
\* token and a refresh token.
C21_AuthenticatedImpliesTokens ==
  (AfterFailedRefresh /\ isAuthenticated) =>
    (store[ACCESS_TOKEN] # Null /\ store[REFRESH_TOKEN] # Null)


\* C22: once logout has returned "success", the three stored tokens are
\* absent, also when a refreshTokens call was in flight when logout ran.
C22_LogoutLeavesStoreEmpty ==
  \A t \in Tasks :
    (task[t].op = "logout" /\ task[t].pc = "done" /\ task[t].ret = "success")
      => StoreEmpty


\* Both tasks ran refreshTokens to the end, starting from the same stored
\* TokenSet: task t got a 2xx with three new tokens and returned, the other
\* task got a non-2xx and threw.
OneRefreshedOneFailed(t) ==
  /\ \A u \in Tasks : task[u].op = "refreshAccessToken" /\ task[u].pc = "done"
  /\ task[t].ret = "ok" /\ task[t].idp \in OkStatuses
  /\ task[t].resp.access_token # task[t].tokens.accessToken
  /\ task[t].resp.refresh_token # task[t].tokens.refreshToken
  /\ task[t].resp.id_token # task[t].tokens.idToken
  /\ \A u \in Tasks \ {t} :
       /\ task[u].err = "RefreshFailed" /\ task[u].idp \in FailStatuses
       /\ task[u].tokens = task[t].tokens

\* C23: when of two overlapping refreshTokens calls one got a 2xx and the
\* other a non-2xx, after both have finished the store holds the three tokens
\* of the successful response.
C23_FailedRefreshKeepsOthersTokens ==
  \A t \in Tasks : OneRefreshedOneFailed(t) => StoreHolds(task[t].resp)


\* The effect has run with a discovery document.
EffectRan == \E t \in Tasks : task[t].op = "useEffect"

\* C24: once the effect has run with a discovery document, loading eventually
\* becomes false, provided every pending call completes; and no step of any
\* operation sets loading back to true.
C24_LoadingEventuallyFalse ==
  /\ EffectRan ~> (loading = FALSE)
  /\ [][loading = FALSE => loading' = FALSE]_vars

C24_Witness ==
  \E t \in Tasks :
    LET r == task[t]
    IN /\ r.op = "useEffect" /\ r.pc = "done" /\ ~r.doc.error
       /\ r.refreshes = 1 /\ r.err = "RefreshFailed"
       /\ loading = FALSE

====
